---- MODULE Spec2Model ----
(***************************************************************************)
(* Capture-and-analyze orchestration of the Electron main process          *)
(* (main/main.js), with the parts of main/api.js and main/screenshot.js    *)
(* it calls.  One action per handler, timer callback or resumption of an   *)
(* awaited call.  JavaScript runs each of them to its next await without   *)
(* interleaving, so each is one atomic step.                               *)
(***************************************************************************)
EXTENDS Integers, Sequences, FiniteSets, TLC

\* ------------------------------------------------------------------ bounds
\* Handler invocations / timer callbacks that may be outstanding at once.
MaxProcs == 2
\* Timer handles that may exist at once (setInterval returns a fresh one).
MaxTimers == 2
\* successful captures the renderer is followed through
MaxEvents == 12
\* captureNow() calls the renderer has outstanding at once
MaxRequests == 2
\* addToHistory keeps this many entries
HistoryLimit == 10

Procs == 1..MaxProcs
TimerIds == 1..MaxTimers
\* captureIntervalId = null
NoTimer == 0

\* ------------------------------------------------------- program constants
DefaultInterval == 10000
\* the ends of the interval slider of the settings dialog, in seconds
SliderMin == 5
SliderMax == 60
\* positions of the slider the model moves it to: that of the default and the
\* upper end
SliderSeconds == {DefaultInterval \div 1000, SliderMax}
\* variant: saveSettings sends the slider's seconds as they are
saveSettingsIntervalUnscaled(seconds) == seconds

\* parseInt(elements.captureInterval.value) * 1000
saveSettingsInterval(seconds) == seconds * 1000

\* values the renderer sends as captureInterval
Intervals == {saveSettingsInterval(seconds) : seconds \in SliderSeconds}
NoKey == ""
SomeKey == "sk-test"
ApiKeys == {NoKey, SomeKey}

MsgCaptureFailed == "Failed to capture screenshot"
MsgNoApiKey == "OpenAI API key not configured. Please add your API key in Settings."
MsgApiKeyUnset == "API key not configured"
MsgCapturePermission == "Screen capture permission denied. Please grant permission in system settings."
MsgInvalidKey == "Invalid API key. Please check your OpenAI API key in Settings."
MsgRateLimit == "Rate limit exceeded. Please wait a moment before trying again."
MsgUnavailable == "OpenAI service is temporarily unavailable. Please try again later."
MsgNetwork == "Network error. Please check your internet connection."
MsgTimeout == "Request timed out. Please try again."
MsgNoContent == "No response content from API"
\* messages that come from outside the repository (library or provider text)
MsgUnderlying == "<underlying error message>"
MsgApiError == "API error: <provider message>"
MsgNotString == "analysis.substring is not a function"

\* store defaults of main.js
StoreDefaults ==
  [captureInterval |-> DefaultInterval, autoCapture |-> FALSE,
   openaiApiKey |-> NoKey, minimizeToTray |-> TRUE, showNotifications |-> TRUE]

VARIABLES
  platform,          \* process.platform
  mediaAccess,       \* systemPreferences.getMediaAccessStatus('screen')
  appState,          \* "launching" | "startupDialog" | "running" | "exited"
  dispatch,          \* app event being dispatched synchronously, or "none"
  mainWindow,        \* TRUE iff the mainWindow reference is non-null
  isQuitting,        \* app.isQuitting
  store,             \* electron-store contents
  apiKey,            \* module variable of api.js
  captureIntervalId, \* timer handle kept by main.js, NoTimer for null
  timers,            \* armed interval timers: handle -> interval
  isCapturing,       \* single-flight flag
  proc,              \* outstanding handler invocations and timer callbacks
  last,              \* the invocation that returned in the latest step, if one did
  analysisHistory,   \* renderer: state.analysisHistory, newest entry first
  localStorage,      \* renderer: the saved 'analysisHistory' item
  captureBtnDisabled, \* renderer: elements.captureBtn.disabled
  captureNowPending  \* renderer: captureNow() calls of handleCaptureNow not yet settled

\* the renderer process (app.js)
rendererVars == <<analysisHistory, localStorage, captureBtnDisabled, captureNowPending>>

\* the main process (main.js, api.js)
mainVars == <<platform, mediaAccess, appState, dispatch, mainWindow, isQuitting,
              store, apiKey, captureIntervalId, timers, isCapturing, proc, last>>

vars == <<mainVars, rendererVars>>

\* localStorage.getItem('analysisHistory') before anything was saved
NoItem == [present |-> FALSE, text |-> <<>>]

\* the renderer after init() on a first launch: nothing saved, the button
\* enabled as in the page, no request made
RendererFresh ==
  /\ analysisHistory = <<>>
  /\ localStorage = NoItem
  /\ captureBtnDisabled = FALSE
  /\ captureNowPending = 0

\* ----------------------------------------------------------------- helpers
Min(S) == CHOOSE x \in S : \A y \in S : x <= y

\* One handler invocation (or timer callback): its kind, where it is suspended,
\* its locals, the value it returned, and what it sent and called so far.
IdleProc ==
  [kind |-> "none", pc |-> "idle", hasPermission |-> FALSE, arg |-> FALSE,
   settings |-> <<>>, result |-> "none", log |-> <<>>]

Entry(ev, success, text) == [ev |-> ev, success |-> success, text |-> text]

\* window.webContents.send(ev, payload), guarded by if (window)
SendTo(window, log, ev, success, text) ==
  IF window THEN Append(log, Entry(ev, success, text)) ELSE log

\* mainWindow.webContents.send(ev, payload), guarded by if (mainWindow)
Send(log, ev, success, text) == SendTo(mainWindow, log, ev, success, text)

\* a call into a collaborator
Call(log, fn) == Append(log, Entry(fn, TRUE, ""))

InSession(p) == proc[p].pc \in {"captureScreen", "analyzeImage"}
FreeSlots == {p \in Procs : proc[p].pc = "idle"}
NewProc == Min(FreeSlots)

\* handlers and timers run only while the process runs and no app event is
\* being dispatched synchronously
Ready == appState \in {"startupDialog", "running"} /\ dispatch = "none"

\* The message box of requestScreenCapturePermission is modal to the main
\* window: while one is open the renderer's controls take no input, so it sends
\* no request.
DialogOpen ==
  appState = "startupDialog" \/ \E p \in Procs : proc[p].pc = "permissionDialog"

\* the renderer can send a request (capture-now, toggle-auto-capture,
\* update-settings); app.quit() closes the window right after before-quit, and
\* no request is sent in between
RendererReady == Ready /\ mainWindow /\ ~DialogOpen /\ ~isQuitting

\* process.platform: macOS, and one platform without a permission concept
Platforms == {"darwin", "linux"}
\* what systemPreferences.getMediaAccessStatus('screen') returns on macOS;
\* "unavailable" where the call does not exist and is never made
MediaAccess == {"granted", "denied", "unavailable"}

\* variant: the platform test of requestScreenCapturePermission without the
\* final return true
PermissionGrantedMacOnly == platform = "darwin" /\ mediaAccess = "granted"

\* requestScreenCapturePermission: its return value; when FALSE it first awaits
\* the message box
PermissionGranted == platform # "darwin" \/ mediaAccess = "granted"

\* variant: check-permission asks the OS on every platform
checkPermissionAnyPlatform == mediaAccess = "granted"

\* ipcMain.handle('check-permission'): its return value
checkPermission == platform = "darwin" => mediaAccess = "granted"

\* what the handler of an invocation returns to its caller
HandlerReturn(kind, hasPermission, arg) ==
  CASE kind \in {"capture-now", "check-permission"} ->
         IF hasPermission THEN "true" ELSE "false"
    [] kind = "toggle-auto-capture" ->
         IF ~hasPermission THEN "false" ELSE IF arg THEN "true" ELSE "false"
    [] kind = "update-settings" -> "true"
    [] OTHER -> "void"

\* ------------------------------------------------------------------ timers
clearInterval(ts, id) == [t \in DOMAIN ts \ {id} |-> ts[t]]
\* a timer armed by setInterval: its period, and the time elapsed since it was
\* armed or last fired (kept up to the period)
Timer(interval, elapsed) == [interval |-> interval, elapsed |-> elapsed]
setInterval(ts, id, interval) ==
  [t \in DOMAIN ts \cup {id} |-> IF t = id THEN Timer(interval, 0) ELSE ts[t]]
\* the timer's period has elapsed: its callback is due
Due(timer) == timer.elapsed >= timer.interval
\* variant: a timer armed for one shot, gone once its callback has run
TimersAfterTickOneShot(ts, id) == clearInterval(ts, id)

\* the timers when the callback of timer id has been run: its next period begins
TimersAfterTick(ts, id) == [ts EXCEPT ![id].elapsed = 0]
\* the shortest time after which a timer not yet due becomes due
TimeToNextDue(ts) ==
  Min({ts[t].interval - ts[t].elapsed : t \in {u \in DOMAIN ts : ~Due(ts[u])}})
\* the timers after this much time
TimersAfterTime(ts, ms) ==
  [t \in DOMAIN ts |->
     Timer(ts[t].interval,
           IF ts[t].elapsed + ms >= ts[t].interval THEN ts[t].interval
           ELSE ts[t].elapsed + ms)]

NoTimers == [t \in {} |-> 0]
\* the handles setInterval can return: those of no armed timer (a handle is
\* only ever compared with the handles of armed timers)
FreshTimers(ts) == {t \in TimerIds : t \notin DOMAIN ts}
\* variant: startAutoCapture arms the new timer without clearing the old one
TimersNotCleared(ts, handle) == ts

\* the timers left when startAutoCapture has cleared the old one
TimersCleared(ts, handle) == IF handle # NoTimer THEN clearInterval(ts, handle) ELSE ts

\* startAutoCapture: clear the old timer if there is a handle, arm a new one
TimersAfterStart(ts, handle, interval, fresh) ==
  setInterval(TimersCleared(ts, handle), fresh, interval)

\* variant: stopAutoCapture drops the handle but leaves the timer armed
TimersAfterStopKept(ts, handle) == ts

\* stopAutoCapture: clear the timer if there is a handle
TimersAfterStop(ts, handle) ==
  IF handle # NoTimer THEN clearInterval(ts, handle) ELSE ts

\* what startAutoCapture calls and sends, the main window being window
StartLog(log, handle, window) ==
  SendTo(window,
         Call(Call(IF handle # NoTimer THEN Call(log, "clearInterval") ELSE log,
                   "setInterval"),
              "updateTrayMenu"),
         "auto-capture-status", TRUE, "")

\* what stopAutoCapture calls and sends
StopLog(log, handle, window) ==
  SendTo(window,
         Call(IF handle # NoTimer THEN Call(log, "clearInterval") ELSE log,
              "updateTrayMenu"),
         "auto-capture-status", FALSE, "")

\* variant: startAutoCapture arms the timer but does not persist the flag
StartAutoCaptureUnpersisted(st) ==
  /\ LET fresh == FreshTimers(TimersCleared(timers, captureIntervalId))
     IN  /\ fresh # {}
         /\ timers' = TimersAfterStart(timers, captureIntervalId, st.captureInterval,
                                       Min(fresh))
         /\ captureIntervalId' = Min(fresh)
  /\ store' = st

\* startAutoCapture(), reading the store value st
StartAutoCapture(st) ==
  /\ LET fresh == FreshTimers(TimersCleared(timers, captureIntervalId))
     IN  /\ fresh # {}
         /\ timers' = TimersAfterStart(timers, captureIntervalId, st.captureInterval,
                                       Min(fresh))
         /\ captureIntervalId' = Min(fresh)
  /\ store' = [st EXCEPT !.autoCapture = TRUE]

\* stopAutoCapture()
StopAutoCapture ==
  /\ timers' = TimersAfterStop(timers, captureIntervalId)
  /\ captureIntervalId' = NoTimer
  /\ store' = [store EXCEPT !.autoCapture = FALSE]

\* ------------------------------------------------------------ collaborators
CaptureOutcomes == {"image", "empty", "permissionError", "otherError"}

\* captureScreen(): the base64 string it returns, or the error it throws
captureScreen(outcome) ==
  CASE outcome = "image" -> [threw |-> FALSE, value |-> "image", message |-> ""]
    [] outcome = "empty" -> [threw |-> FALSE, value |-> "", message |-> ""]
    [] outcome = "permissionError" ->
         [threw |-> TRUE, value |-> "", message |-> MsgCapturePermission]
    [] OTHER -> [threw |-> TRUE, value |-> "", message |-> MsgUnderlying]

Outcome(type, status, code, content) ==
  [type |-> type, status |-> status, code |-> code, content |-> content]

\* what the awaited axios.post can settle with
AnalyzeOutcomes ==
  { Outcome("response", 200, "", "text"),
    Outcome("response", 200, "", "nonString"),
    Outcome("response", 200, "", "missing"),
    Outcome("http", 429, "", ""),
    Outcome("network", 0, "ENOTFOUND", "") }

\* variant: the switch on the status has only its default case
StatusMessageGeneric(status) == MsgApiError

\* the switch on error.response.status
StatusMessage(status) ==
  CASE status = 401 -> MsgInvalidKey
    [] status = 429 -> MsgRateLimit
    [] status \in {500, 502, 503} -> MsgUnavailable
    [] OTHER -> MsgApiError

\* the tests on error.code
CodeMessage(code) ==
  CASE code \in {"ENOTFOUND", "ECONNREFUSED"} -> MsgNetwork
    [] code \in {"ETIMEDOUT", "ECONNABORTED"} -> MsgTimeout
    [] OTHER -> MsgUnderlying

\* if (!result): the content is undefined or null ("missing") or the empty string
ContentMissing(content) == content \in {"missing", ""}

\* analyzeImage() once axios.post has settled: the text it returns or the
\* error it throws
analyzeImage(o) ==
  CASE o.type = "response" /\ ~ContentMissing(o.content) ->
         [threw |-> FALSE, value |-> o.content, message |-> ""]
    [] o.type = "response" /\ ContentMissing(o.content) ->
         [threw |-> TRUE, value |-> "", message |-> MsgNoContent]
    [] o.type = "http" ->
         [threw |-> TRUE, value |-> "", message |-> StatusMessage(o.status)]
    [] OTHER -> [threw |-> TRUE, value |-> "", message |-> CodeMessage(o.code)]

\* ---------------------------------------------------------- performCapture
\* variant: performCapture without its guard
performCaptureNeverBusy == FALSE

\* if (isCapturing) return;
performCaptureBusy == isCapturing

\* the timer callback's own test, if (!isCapturing)
tickSkips == isCapturing

\* variant: performCapture without its API key test
KeyNeverMissing(key) == FALSE

\* if (!apiKey) of performCapture
KeyMissing(key) == key = NoKey

\* variant: the flag is cleared on the success path only
FlagStaysAfterFailure(failed) == failed

\* finally { isCapturing = false }
FlagAfterAttempt(failed) == FALSE

\* log(level, message) of the logger module, as a line of the invocation's log
Log(log, isInfo, message) == Append(log, Entry("log", isInfo, message))

\* variant: the try block begins after the capture
TryCoversAnalysisOnly(step) == step \in {"apiKey", "analyzeImage", "notification"}

\* The try block spans every step of the pipeline, from 'capture-started' to
\* the notification.
TryCovers(step) == step \in {"captureScreen", "apiKey", "analyzeImage", "notification"}

\* variant: a catch block that only logs
CatchSilently(log, message) == Log(log, FALSE, message)

\* the catch block: log the error and report it to the renderer
Catch(log, message) ==
  Send(Log(log, FALSE, message), "capture-complete", FALSE, message)

\* a step in which no invocation returns
NoReturn == last' = IdleProc

\* the handler invocation rec, in slot p, returns to its caller
Return(p, rec) ==
  /\ proc' = [proc EXCEPT ![p] = IdleProc]
  /\ last' = [rec EXCEPT !.pc = "idle",
                         !.result = HandlerReturn(rec.kind, rec.hasPermission, rec.arg)]

\* the handler invocation rec, in slot p, ends with an exception nobody caught
Reject(p, rec) ==
  /\ proc' = [proc EXCEPT ![p] = IdleProc]
  /\ last' = [rec EXCEPT !.pc = "idle", !.result = "rejected"]

\* performCapture() called by rec, up to its first await: the guard, the flag,
\* 'capture-started', and the call of captureScreen
EnterPerformCapture(p, rec) ==
  IF performCaptureBusy
    THEN Return(p, rec) /\ UNCHANGED isCapturing
    ELSE /\ isCapturing' = TRUE
         /\ proc' = [proc EXCEPT ![p] =
              [rec EXCEPT !.pc = "captureScreen",
                          !.log = Call(Send(Log(rec.log, TRUE, "Performing screen capture..."),
                                            "capture-started", TRUE, ""),
                                       "captureScreen")]]
         /\ NoReturn

\* the attempt of slot p ends without an exception: finally, then the caller
\* returns
EndSession(p, log) ==
  /\ Return(p, [proc[p] EXCEPT !.log = log])
  /\ isCapturing' = FlagAfterAttempt(FALSE)

\* variant: a failed attempt is reported and then started over
FailSessionRetries(p, log, step, message) ==
  /\ proc' = [proc EXCEPT ![p].pc = "captureScreen",
                          ![p].log = Call(Catch(log, message), "captureScreen")]
  /\ isCapturing' = TRUE
  /\ NoReturn

\* an exception with this message is thrown at this step of the attempt of
\* slot p: catch if the try block covers the step, finally, and the caller
\* returns or is rejected
FailSession(p, log, step, message) ==
  /\ IF TryCovers(step)
       THEN Return(p, [proc[p] EXCEPT !.log = Catch(log, message)])
       ELSE Reject(p, [proc[p] EXCEPT !.log = log])
  /\ isCapturing' = FlagAfterAttempt(TRUE)

\* variant: an empty result of captureScreen counts as a screenshot
NoScreenshotNever(value) == FALSE

\* if (!screenshot): captureScreen returned an empty string
NoScreenshot(value) == value = ""

\* await captureScreen() settles; performCapture runs on to await analyzeImage()
CaptureScreenSettles(p, o) ==
  /\ Ready
  /\ proc[p].pc = "captureScreen"
  /\ LET r == captureScreen(o)
         key == store.openaiApiKey
         log == proc[p].log
         captured == Log(log, TRUE, "Screenshot captured successfully")
         sent == Send(Call(captured, "setApiKey"), "analyzing", TRUE, "")
     IN  IF r.threw
           THEN FailSession(p, log, "captureScreen", r.message) /\ UNCHANGED apiKey
         ELSE IF NoScreenshot(r.value)
           THEN FailSession(p, log, "captureScreen", MsgCaptureFailed) /\ UNCHANGED apiKey
         ELSE IF KeyMissing(key)
           THEN FailSession(p, captured, "apiKey", MsgNoApiKey) /\ UNCHANGED apiKey
         ELSE /\ apiKey' = key
              /\ IF key = NoKey
                   \* analyzeImage: if (!apiKey) throw, before any request
                   THEN FailSession(p, Call(sent, "analyzeImage"), "analyzeImage",
                                    MsgApiKeyUnset)
                   ELSE /\ proc' = [proc EXCEPT ![p].pc = "analyzeImage",
                                                ![p].log = Call(Call(sent, "analyzeImage"),
                                                                "axios.post")]
                        /\ UNCHANGED isCapturing
                        /\ NoReturn
  /\ UNCHANGED <<rendererVars, platform, mediaAccess, appState, dispatch, mainWindow, isQuitting,
                 store, captureIntervalId, timers>>

\* await analyzeImage() settles; performCapture runs to its end
AnalyzeSettles(p, o) ==
  /\ Ready
  /\ proc[p].pc = "analyzeImage"
  /\ LET r == analyzeImage(o)
         log == proc[p].log
         sent == Send(Log(log, TRUE, "Analysis complete"),
                      "capture-complete", TRUE, r.value)
     IN  IF r.threw
           THEN FailSession(p, log, "analyzeImage", r.message)
         ELSE IF store.showNotifications
           THEN IF r.value = "nonString"
                  \* analysis.substring is not a function: a TypeError
                  THEN FailSession(p, sent, "notification", MsgNotString)
                  ELSE EndSession(p, Call(sent, "Notification.show"))
         ELSE EndSession(p, sent)
  /\ UNCHANGED <<rendererVars, platform, mediaAccess, appState, dispatch, mainWindow, isQuitting,
                 store, apiKey, captureIntervalId, timers>>

\* the setInterval callback of timer t fires
Tick(t) ==
  /\ Ready
  /\ t \in DOMAIN timers
  /\ Due(timers[t])
  /\ timers' = TimersAfterTick(timers, t)
  /\ FreeSlots # {}
  /\ LET rec == [IdleProc EXCEPT !.kind = "tick", !.result = "pending"]
     IN  IF tickSkips
           THEN Return(NewProc, rec) /\ UNCHANGED isCapturing
           ELSE EnterPerformCapture(NewProc, rec)
  /\ UNCHANGED <<rendererVars, platform, mediaAccess, appState, dispatch, mainWindow, isQuitting,
                 store, apiKey, captureIntervalId>>

\* time passes between two steps of the process, until the next timer is due
TimePasses ==
  /\ Ready
  /\ \E t \in DOMAIN timers : ~Due(timers[t])
  /\ timers' = TimersAfterTime(timers, TimeToNextDue(timers))
  /\ UNCHANGED <<rendererVars, platform, mediaAccess, appState, dispatch, mainWindow, isQuitting,
                 store, apiKey, captureIntervalId, isCapturing, proc>>
  /\ NoReturn

\* -------------------------------------------------------------- capture-now
\* variant: capture-now ignores the result of the permission check
CaptureNowAlwaysProceeds(hasPermission) == TRUE

\* if (hasPermission) await performCapture();
CaptureNowProceeds(hasPermission) == hasPermission

CaptureNowContinue(p, rec) ==
  IF CaptureNowProceeds(rec.hasPermission)
    THEN EnterPerformCapture(p, rec)
    ELSE Return(p, rec) /\ UNCHANGED isCapturing

\* ipcMain.handle('capture-now'), up to its first suspension
CaptureNow ==
  /\ RendererReady
  /\ FreeSlots # {}
  /\ LET rec == [IdleProc EXCEPT !.kind = "capture-now", !.result = "pending",
                                 !.hasPermission = PermissionGranted]
     IN  IF PermissionGranted
           THEN CaptureNowContinue(NewProc, rec)
           ELSE /\ proc' = [proc EXCEPT ![NewProc] = [rec EXCEPT !.pc = "permissionDialog"]]
                /\ UNCHANGED isCapturing /\ NoReturn
  /\ UNCHANGED <<rendererVars, platform, mediaAccess, appState, dispatch, mainWindow, isQuitting,
                 store, apiKey, captureIntervalId, timers>>

\* the message box of requestScreenCapturePermission is dismissed
CaptureNowDialogDismissed(p) ==
  /\ Ready
  /\ proc[p].kind = "capture-now" /\ proc[p].pc = "permissionDialog"
  /\ CaptureNowContinue(p, proc[p])
  /\ UNCHANGED <<rendererVars, platform, mediaAccess, appState, dispatch, mainWindow, isQuitting,
                 store, apiKey, captureIntervalId, timers>>

\* ------------------------------------------------------ toggle-auto-capture
\* variant: toggle-auto-capture ignores the result of the permission check
ToggleAlwaysProceeds(hasPermission) == TRUE

\* if (!hasPermission) return false;
ToggleProceeds(hasPermission) == hasPermission

ToggleContinue(p, rec) ==
  IF ~ToggleProceeds(rec.hasPermission)
    THEN Return(p, rec) /\ UNCHANGED <<store, captureIntervalId, timers>>
    ELSE IF rec.arg
      THEN /\ StartAutoCapture(store)
           /\ Return(p, [rec EXCEPT !.log = StartLog(rec.log, captureIntervalId, mainWindow)])
      ELSE /\ StopAutoCapture
           /\ Return(p, [rec EXCEPT !.log = StopLog(rec.log, captureIntervalId, mainWindow)])

\* ipcMain.handle('toggle-auto-capture'), up to its first suspension
ToggleAutoCapture(enabled) ==
  /\ RendererReady
  /\ FreeSlots # {}
  /\ LET rec == [IdleProc EXCEPT !.kind = "toggle-auto-capture", !.result = "pending",
                                 !.arg = enabled, !.hasPermission = PermissionGranted]
     IN  IF PermissionGranted
           THEN ToggleContinue(NewProc, rec)
           ELSE /\ proc' = [proc EXCEPT ![NewProc] = [rec EXCEPT !.pc = "permissionDialog"]]
                /\ UNCHANGED <<store, captureIntervalId, timers>>
                /\ NoReturn
  /\ UNCHANGED <<rendererVars, platform, mediaAccess, appState, dispatch, mainWindow, isQuitting,
                 apiKey, isCapturing>>

ToggleDialogDismissed(p) ==
  /\ Ready
  /\ proc[p].kind = "toggle-auto-capture" /\ proc[p].pc = "permissionDialog"
  /\ ToggleContinue(p, proc[p])
  /\ UNCHANGED <<rendererVars, platform, mediaAccess, appState, dispatch, mainWindow, isQuitting,
                 apiKey, isCapturing>>

\* ---------------------------------------------------------- update-settings
SettingKeys == {"captureInterval", "openaiApiKey", "minimizeToTray", "showNotifications"}

FullSettings ==
  [captureInterval : Intervals, openaiApiKey : ApiKeys,
   minimizeToTray : BOOLEAN, showNotifications : BOOLEAN]

\* the partial update objects: no field, one field, or all four (what Save in
\* the settings dialog sends), with any values
SettingsUpdates ==
  {[k \in S |-> v[k]] :
     S \in {T \in SUBSET SettingKeys : Cardinality(T) <= 1 \/ T = SettingKeys},
     v \in FullSettings}

\* variant: the update object replaces the settings, absent fields falling
\* back to their defaults
MergeOverDefaults(st, s) ==
  [k \in DOMAIN st |->
     IF k \in DOMAIN s THEN s[k]
     ELSE IF k \in SettingKeys THEN StoreDefaults[k] ELSE st[k]]

\* every field present overwrites the stored value
Merge(st, s) == [k \in DOMAIN st |-> IF k \in DOMAIN s THEN s[k] ELSE st[k]]

\* variant: update-settings only stores the interval
NeverRestartsTimer(s) == FALSE

\* if (settings.captureInterval !== undefined) ... if (store.get('autoCapture'))
RestartsTimer(s) == "captureInterval" \in DOMAIN s /\ store.autoCapture

\* a handler or app-event callback that ran to its end in one step, having
\* called and sent what is in log
Ran(kind, log) ==
  [IdleProc EXCEPT !.kind = kind, !.log = log,
                   !.result = HandlerReturn(kind, FALSE, FALSE)]

\* store.set(k, settings[k]) if the field k of the update object is defined
StoreSet(log, s, k) ==
  IF k \in DOMAIN s THEN Append(log, Entry("store.set", TRUE, k)) ELSE log

\* what update-settings calls and sends, in the order of its if statements
UpdateLog(s, handle, window) ==
  LET interval == StoreSet(<<>>, s, "captureInterval")
      started == IF RestartsTimer(s) THEN StartLog(interval, handle, window)
                 ELSE interval
      rest == StoreSet(StoreSet(StoreSet(started, s, "openaiApiKey"),
                                s, "minimizeToTray"),
                       s, "showNotifications")
  IN  Log(rest, TRUE, "Settings updated")

\* ipcMain.handle('update-settings'); it is recorded when it restarted the timer
UpdateSettings(s) ==
  /\ RendererReady
  /\ IF RestartsTimer(s)
       THEN /\ StartAutoCapture(Merge(store, s))
            /\ last' = [Ran("update-settings",
                            UpdateLog(s, captureIntervalId, mainWindow))
                          EXCEPT !.settings = s]
       ELSE /\ store' = Merge(store, s) /\ UNCHANGED <<captureIntervalId, timers>>
            /\ NoReturn
  /\ UNCHANGED <<rendererVars, platform, mediaAccess, appState, dispatch, mainWindow, isQuitting,
                 apiKey, isCapturing, proc>>

\* ---------------------------------------------------------- check-permission
\* ipcMain.handle('check-permission'): no await, no dialog
CheckPermission ==
  /\ RendererReady
  /\ last' = [Ran("check-permission", <<>>)
                EXCEPT !.hasPermission = checkPermission,
                       !.result = HandlerReturn("check-permission", checkPermission, FALSE)]
  /\ UNCHANGED <<rendererVars, platform, mediaAccess, appState, dispatch, mainWindow, isQuitting,
                 store, apiKey, captureIntervalId, timers, isCapturing, proc>>

\* ---------------------------------------------------------------- tray menu
\* the channels on which the preload script lets the renderer listen, each of
\* which setupIPCListeners of the renderer subscribes to
PreloadChannels == {"capture-started", "analyzing", "capture-complete",
                    "auto-capture-status"}

\* the renderer has a listener for messages on this channel
RendererListens(channel) == channel \in PreloadChannels

\* the channels of the tray items 'Capture Now' and auto-capture
TrayChannels == {"trigger-capture", "toggle-auto-from-tray"}

\* A tray item is clicked while the main window exists and shows no message
\* box: mainWindow.webContents.send(channel).  The entry records whether a
\* listener of the renderer receives the message; nothing else in the main
\* process reacts to the click.
TrayItemClicked(channel) ==
  /\ RendererReady
  /\ last' = Ran("tray-click", Send(<<>>, channel, RendererListens(channel), ""))
  /\ UNCHANGED <<rendererVars, platform, mediaAccess, appState, dispatch, mainWindow, isQuitting,
                 store, apiKey, captureIntervalId, timers, isCapturing, proc>>

\* ----------------------------------------------------------- app lifecycle
\* app.whenReady().then(...): createWindow, createTray, setupIPC, and the
\* restore of auto-capture, up to the message box if permission is missing
AppReady ==
  /\ appState = "launching"
  /\ mainWindow' = TRUE
  /\ IF store.autoCapture
       THEN IF PermissionGranted
              THEN /\ StartAutoCapture(store) /\ appState' = "running"
                   /\ last' = [Ran("whenReady", StartLog(<<>>, captureIntervalId, TRUE))
                                 EXCEPT !.hasPermission = TRUE]
              ELSE /\ appState' = "startupDialog"
                   /\ UNCHANGED <<store, captureIntervalId, timers>>
                   /\ NoReturn
       ELSE /\ appState' = "running" /\ UNCHANGED <<store, captureIntervalId, timers>>
            /\ NoReturn
  /\ UNCHANGED <<rendererVars, platform, mediaAccess, dispatch, isQuitting, apiKey, isCapturing, proc>>

\* the start-up message box is dismissed; app.on('activate') is registered
StartupDialogDismissed ==
  /\ appState = "startupDialog" /\ dispatch = "none"
  /\ appState' = "running"
  /\ UNCHANGED <<rendererVars, platform, mediaAccess, dispatch, mainWindow, isQuitting, store,
                 apiKey, captureIntervalId, timers, isCapturing, proc>>
  /\ NoReturn

\* the window is closed and the close handler does not prevent it: 'closed'
\* clears the reference; unless the app is quitting, window-all-closed follows
CloseWindow ==
  /\ Ready /\ mainWindow
  /\ ~(store.minimizeToTray /\ ~isQuitting)
  /\ mainWindow' = FALSE
  /\ dispatch' = IF isQuitting THEN "none" ELSE "window-all-closed"
  /\ UNCHANGED <<rendererVars, platform, mediaAccess, appState, isQuitting, store, apiKey,
                 captureIntervalId, timers, isCapturing, proc>>
  /\ NoReturn

\* app.on('window-all-closed'): app.quit() except on macOS
WindowAllClosed ==
  /\ dispatch = "window-all-closed"
  /\ dispatch' = IF platform # "darwin" THEN "before-quit" ELSE "none"
  /\ UNCHANGED <<rendererVars, platform, mediaAccess, appState, mainWindow, isQuitting, store,
                 apiKey, captureIntervalId, timers, isCapturing, proc>>
  /\ NoReturn

\* Quit in the tray menu (or the platform's quit command): app.quit()
QuitRequested ==
  /\ Ready /\ ~isQuitting
  /\ dispatch' = "before-quit"
  /\ UNCHANGED <<rendererVars, platform, mediaAccess, appState, mainWindow, isQuitting, store,
                 apiKey, captureIntervalId, timers, isCapturing, proc>>
  /\ NoReturn

\* variant: before-quit without the call of stopAutoCapture
BeforeQuitKeepsTimer ==
  /\ dispatch = "before-quit"
  /\ isQuitting' = TRUE
  /\ dispatch' = "none"
  /\ UNCHANGED <<rendererVars, platform, mediaAccess, appState, mainWindow, apiKey, isCapturing, proc,
                 store, captureIntervalId, timers>>
  /\ NoReturn

\* app.on('before-quit')
BeforeQuit ==
  /\ dispatch = "before-quit"
  /\ isQuitting' = TRUE
  /\ StopAutoCapture
  /\ dispatch' = "none"
  /\ UNCHANGED <<rendererVars, platform, mediaAccess, appState, mainWindow, apiKey, isCapturing, proc>>
  /\ last' = Ran("before-quit", StopLog(<<>>, captureIntervalId, mainWindow))

\* every window is closed and the app is quitting: the process ends
ProcessExit ==
  /\ Ready /\ isQuitting /\ ~mainWindow
  /\ appState' = "exited"
  /\ UNCHANGED <<rendererVars, platform, mediaAccess, dispatch, mainWindow, isQuitting, store,
                 apiKey, captureIntervalId, timers, isCapturing, proc>>
  /\ NoReturn

\* app.on('activate') with no window open: createWindow()
Activate ==
  /\ appState = "running" /\ dispatch = "none"
  /\ platform = "darwin" /\ ~isQuitting
  /\ ~mainWindow
  /\ mainWindow' = TRUE
  /\ UNCHANGED <<rendererVars, platform, mediaAccess, appState, dispatch, isQuitting, store,
                 apiKey, captureIntervalId, timers, isCapturing, proc>>
  /\ NoReturn

\* the user grants or revokes Screen Recording in System Preferences
SetMediaAccess(status) ==
  /\ Ready
  /\ platform = "darwin" /\ status # mediaAccess
  /\ mediaAccess' = status
  /\ UNCHANGED <<rendererVars, platform, appState, dispatch, mainWindow, isQuitting, store,
                 apiKey, captureIntervalId, timers, isCapturing, proc>>
  /\ NoReturn

\* ------------------------------------------------------------ specification
Init ==
  /\ platform \in Platforms
  /\ mediaAccess \in MediaAccess
  /\ platform # "darwin" <=> mediaAccess = "unavailable"
  /\ appState = "launching"
  /\ dispatch = "none"
  /\ mainWindow = FALSE
  /\ isQuitting = FALSE
  /\ store \in {[StoreDefaults EXCEPT !.autoCapture = a] : a \in BOOLEAN}
  /\ apiKey = NoKey
  /\ captureIntervalId = NoTimer
  /\ timers = NoTimers
  /\ isCapturing = FALSE
  /\ proc = [p \in Procs |-> IdleProc]
  /\ last = IdleProc
  /\ RendererFresh

Next ==
  \/ AppReady
  \/ StartupDialogDismissed
  \/ CaptureNow
  \/ \E p \in Procs : CaptureNowDialogDismissed(p)
  \/ \E enabled \in BOOLEAN : ToggleAutoCapture(enabled)
  \/ \E p \in Procs : ToggleDialogDismissed(p)
  \/ \E s \in SettingsUpdates : UpdateSettings(s)
  \/ CheckPermission
  \/ \E channel \in TrayChannels : TrayItemClicked(channel)
  \/ \E t \in TimerIds : Tick(t)
  \/ TimePasses
  \/ \E p \in Procs, o \in CaptureOutcomes : CaptureScreenSettles(p, o)
  \/ \E p \in Procs, o \in AnalyzeOutcomes : AnalyzeSettles(p, o)
  \/ CloseWindow
  \/ WindowAllClosed
  \/ QuitRequested
  \/ BeforeQuit
  \/ ProcessExit
  \/ Activate
  \/ \E status \in {"granted", "denied"} : SetMediaAccess(status)

Spec == Init /\ [][Next]_vars

TypeOK ==
  /\ platform \in Platforms
  /\ mediaAccess \in MediaAccess
  /\ appState \in {"launching", "startupDialog", "running", "exited"}
  /\ dispatch \in {"none", "window-all-closed", "before-quit"}
  /\ mainWindow \in BOOLEAN /\ isQuitting \in BOOLEAN /\ isCapturing \in BOOLEAN
  /\ store.captureInterval \in Intervals /\ store.openaiApiKey \in ApiKeys
  /\ apiKey \in ApiKeys
  /\ captureIntervalId \in TimerIds \cup {NoTimer}
  /\ DOMAIN timers \subseteq TimerIds
  /\ \A p \in Procs : proc[p].pc \in {"idle", "permissionDialog", "captureScreen", "analyzeImage"}
  /\ analysisHistory \in Seq([analysis : STRING, timestamp : 1..MaxEvents])
  /\ localStorage.present \in BOOLEAN
  /\ captureBtnDisabled \in BOOLEAN
  /\ captureNowPending \in 0..MaxRequests

\* an awaited call of some invocation settles and its continuation runs
Settles ==
  \E p \in Procs :
    \/ \E o \in CaptureOutcomes : CaptureScreenSettles(p, o)
    \/ \E o \in AnalyzeOutcomes : AnalyzeSettles(p, o)

\* Awaited calls settle and the event loop then runs their continuations; an
\* app event being dispatched is handled.  A continuation is disabled while an
\* app event is dispatched, hence strong fairness.
FairSpec ==
  /\ Spec
  /\ SF_vars(Settles)
  /\ WF_vars(WindowAllClosed \/ BeforeQuit)

\* ------------------------------------------------------- reading the record
\* positions of the entries of a log with this name
Entries(log, ev) == {i \in 1..Len(log) : log[i].ev = ev}

\* positions of the events of a log with this name and success flag
Events(log, ev, success) ==
  {i \in 1..Len(log) : log[i].ev = ev /\ log[i].success = success}

\* the log holds this line of the logger
Logged(log, isInfo, message) ==
  \E i \in 1..Len(log) : log[i] = Entry("log", isInfo, message)

\* the catch block of performCapture ran in this log
Failed(log) == \E i \in 1..Len(log) : log[i].ev = "log" /\ ~log[i].success

\* the invocation that returned in the latest step ran a capture attempt
SessionReturned ==
  last.kind \in {"capture-now", "tick"} /\ Entries(last.log, "captureScreen") # {}

\* in this step slot p passes the guard of performCapture
SessionStarts(p) == proc[p].pc # "captureScreen" /\ proc'[p].pc = "captureScreen"

\* a capture request that passed (or has no) permission check arrives
RequestArrives == (CaptureNow /\ PermissionGranted) \/ \E t \in TimerIds : Tick(t)

\* -------------------------------------------------------------------- C1
\* C1: at most one capture session is in flight at any time, the flag
\* isCapturing is set whenever one is, and a session that ends leaves none in
\* flight; a request or tick arriving meanwhile does not start a second one.
C1_SingleFlight ==
  /\ Cardinality({p \in Procs : InSession(p)}) <= 1
  /\ (\E p \in Procs : InSession(p)) => isCapturing
  /\ SessionReturned => \A p \in Procs : ~InSession(p)

\* a capture-now request arrived while a session awaited analyzeImage and
\* returned without running an attempt
C1_Witness ==
  /\ \E p \in Procs : proc[p].pc = "analyzeImage"
  /\ last.kind = "capture-now" /\ last.hasPermission /\ last.log = <<>>

C4_EmptyKeyStopsBeforeAnalysis ==
  [][\A p \in Procs :
       (CaptureScreenSettles(p, "image") /\ store.openaiApiKey = NoKey) =>
         /\ last'.kind = proc[p].kind /\ proc'[p] = IdleProc /\ ~isCapturing'
         /\ Logged(last'.log, TRUE, "Screenshot captured successfully")
         /\ Entries(last'.log, "analyzing") = {}
         /\ Entries(last'.log, "analyzeImage") = {}
         /\ Entries(last'.log, "axios.post") = {}
         /\ Logged(last'.log, FALSE, MsgNoApiKey)
         /\ mainWindow =>
              last'.log[Len(last'.log)] = Entry("capture-complete", FALSE, MsgNoApiKey)
         /\ apiKey' = apiKey]_vars

\* a session has ended with the missing-key failure reported to the renderer
C4_Witness ==
  /\ SessionReturned /\ mainWindow
  /\ last.log[Len(last.log)] = Entry("capture-complete", FALSE, MsgNoApiKey)
  /\ Entries(last.log, "axios.post") = {}

\* -------------------------------------------------------------------- C5
\* C5 as stated: every failure inside a capture session is caught and
\* produces exactly one 'capture-complete' event with success=false, and no
\* exception escapes the session.
C5_FailureEmitsOneEvent ==
  /\ last.result # "rejected"
  /\ (SessionReturned /\ Failed(last.log)) =>
       Cardinality(Events(last.log, "capture-complete", FALSE)) = 1

\* C5 amended: every failure inside a capture session is caught and logged
\* once, and no exception escapes; it produces exactly one 'capture-complete'
\* event with success=false when the main window exists at that moment, and
\* none when the window has been closed.
C5_FailureEmitsOneEventIfWindow ==
  /\ last.result # "rejected"
  /\ (SessionReturned /\ Failed(last.log)) =>
       /\ Cardinality(Entries(last.log, "log") \ Events(last.log, "log", TRUE)) = 1
       /\ Cardinality(Events(last.log, "capture-complete", FALSE)) =
            IF mainWindow THEN 1 ELSE 0

\* a session has failed with the main window closed
C5_Witness ==
  SessionReturned /\ Failed(last.log) /\ ~mainWindow

\* -------------------------------------------------------------------- C6
\* C6 as stated: a session whose capture and analysis both succeed emits
\* 'capture-complete' once (to the renderer, when there is one), with
\* success=true, never a 'capture-complete' with success=false from a later
\* step such as the notification, and leaves the orchestrator idle.
C6_SuccessEmitsOnce ==
  (SessionReturned /\ Logged(last.log, TRUE, "Analysis complete")) =>
    /\ Events(last.log, "capture-complete", FALSE) = {}
    /\ Cardinality(Events(last.log, "capture-complete", TRUE)) <= 1
    /\ mainWindow => Events(last.log, "capture-complete", TRUE) # {}
    /\ ~isCapturing

\* -------------------------------------------------------------------- C7
\* C7: the flag isCapturing is set only while a session awaits captureScreen
\* or analyzeImage, so every way out of performCapture (success, failure,
\* early return) leaves it cleared; and, the awaited calls settling, a set
\* flag is eventually cleared (or the process has exited).
C7_GuardAlwaysCleared ==
  /\ [](isCapturing => \E p \in Procs : InSession(p))
  /\ [](last.kind \in {"capture-now", "tick"} => ~isCapturing \/ last.log = <<>>)
  /\ (isCapturing ~> (~isCapturing \/ appState = "exited"))

\* a timer-driven session has failed in analyzeImage and the flag is clear
C7_Witness ==
  /\ last.kind = "tick" /\ Logged(last.log, FALSE, MsgNetwork)
  /\ ~isCapturing

C9_StopIsIdempotent ==
  [][/\ (BeforeQuit \/ (ToggleAutoCapture(FALSE) /\ PermissionGranted)
                    \/ \E p \in Procs : (ToggleDialogDismissed(p) /\ proc[p].hasPermission)) =>
          (timers' = NoTimers /\ captureIntervalId' = NoTimer /\ ~store'.autoCapture)
     /\ (timers = NoTimers) => ~\E t \in TimerIds : Tick(t)]_vars

\* stopAutoCapture has run for a toggle to off with no timer armed, as a
\* repeated call does: it cleared nothing
C9_Witness ==
  /\ timers = NoTimers /\ captureIntervalId = NoTimer
  /\ last.kind = "toggle-auto-capture" /\ last.hasPermission /\ ~last.arg
  /\ \A i \in 1..Len(last.log) : last.log[i].ev # "clearInterval"

\* ------------------------------------------------------------------- C10
\* C10 as stated: no tick fires once the timer is stopped, and on teardown
\* the timer is cancelled before any other resource is released: when the
\* quit of the app is about to be handled with the window already released,
\* no timer is armed.
C10_TimerCancelledFirst ==
  /\ [][(\E t \in TimerIds : Tick(t)) => captureIntervalId # NoTimer]_vars
  /\ []((platform # "darwin" /\ dispatch = "before-quit" /\ ~mainWindow) =>
          timers = NoTimers)

\* C10 amended: the only armed timer is the one of the latest start, so no
\* tick fires once a stop or before-quit has run, until an explicit start;
\* before-quit cancels the timer.  When the quit follows the close of the last
\* window (not on macOS) the window is released before the timer is
\* cancelled, yet no tick fires in between.
C10_TimerCancelledOnTeardown ==
  /\ [](DOMAIN timers = IF captureIntervalId = NoTimer THEN {} ELSE {captureIntervalId})
  /\ [][(\E t \in TimerIds : Tick(t)) => captureIntervalId # NoTimer]_vars
  /\ [][BeforeQuit => (timers' = NoTimers /\ captureIntervalId' = NoTimer)]_vars
  /\ [][((\E t \in TimerIds : Tick(t)) /\ platform # "darwin" /\ ~isQuitting) =>
          mainWindow]_vars

\* before-quit is about to run after the last window was closed, the timer
\* still armed
C10_Witness ==
  /\ platform # "darwin" /\ dispatch = "before-quit" /\ ~mainWindow
  /\ timers # NoTimers

\* ------------------------------------------------------------------- C11
\* C11: startAutoCapture clears the armed timer before it arms the new one:
\* whatever starts, stops and settings updates have run, at most one timer is
\* armed, it is the one whose handle captureIntervalId holds (the latest
\* armed), and so every tick comes from it.
C11_OneTimerTheLatest ==
  /\ Cardinality(DOMAIN timers) <= 1
  /\ \A t \in DOMAIN timers : t = captureIntervalId

\* startAutoCapture has run for a toggle to on while a session started by a
\* tick of an earlier timer is still in flight
C11_Witness ==
  /\ \E p \in Procs : proc[p].kind = "tick" /\ InSession(p)
  /\ last.kind = "toggle-auto-capture" /\ last.hasPermission /\ last.arg
  /\ Cardinality(DOMAIN timers) = 1

\* ------------------------------------------------------------------- C12
\* C12: a step that changes the stored capture interval while auto-capture
\* is on leaves exactly one timer, armed in that step with the new interval
\* and no time elapsed; and a tick fires only from a timer of the stored
\* interval once that whole interval has elapsed since it was armed or last
\* fired.  So after 10000 -> 60000 the next tick comes 60000 ms or more after
\* the change.
C12_IntervalChangeRestartsTimer ==
  /\ [][(store'.captureInterval # store.captureInterval /\ store.autoCapture) =>
          /\ DOMAIN timers' = {captureIntervalId'}
          /\ timers'[captureIntervalId'] = Timer(store'.captureInterval, 0)]_vars
  /\ [][\A t \in TimerIds :
          Tick(t) => /\ timers[t].interval = store.captureInterval
                     /\ timers[t].elapsed >= store.captureInterval]_vars

\* update-settings has just replaced an armed timer by one of 60000 ms
C12_Witness ==
  /\ last.kind = "update-settings"
  /\ Entries(last.log, "clearInterval") # {}
  /\ store.captureInterval = saveSettingsInterval(SliderMax)
  /\ captureIntervalId \in DOMAIN timers
  /\ timers[captureIntervalId] = Timer(saveSettingsInterval(SliderMax), 0)

\* ------------------------------------------------- the analysis client alone
\* every way the awaited axios.post of analyzeImage can settle: a 2xx response
\* with or without content, a response of any other status, or an error
\* carrying a code of the network layer
ApiOutcomes ==
  {Outcome("response", 200, "", c) : c \in {"text", "nonString", "missing", ""}}
  \cup {Outcome("http", st, "", "") : st \in {400, 401, 403, 404, 429} \cup (500..599)}
  \cup {Outcome("network", 0, c, "") :
          c \in {"ENOTFOUND", "ECONNREFUSED", "EAI_AGAIN", "ECONNRESET",
                 "EHOSTUNREACH", "ENETUNREACH", "ETIMEDOUT", "ECONNABORTED", ""}}

\* the record of an attempt that has sent its request and awaits analyzeImage
AttemptAtAnalyze(kind) ==
  [IdleProc EXCEPT
     !.kind = kind, !.pc = "analyzeImage", !.result = "pending",
     !.hasPermission = (kind = "capture-now"),
     !.log =
       Call(Call(SendTo(TRUE,
                        Call(Log(Call(SendTo(TRUE,
                                             Log(<<>>, TRUE, "Performing screen capture..."),
                                             "capture-started", TRUE, ""),
                                      "captureScreen"),
                                 TRUE, "Screenshot captured successfully"),
                             "setApiKey"),
                        "analyzing", TRUE, ""),
                 "analyzeImage"),
            "axios.post")]

\* the states in which a session awaits analyzeImage, auto-capture being off
ApiInit ==
  /\ platform \in Platforms
  /\ mediaAccess = (IF platform = "darwin" THEN "granted" ELSE "unavailable")
  /\ appState = "running"
  /\ dispatch = "none"
  /\ mainWindow \in BOOLEAN
  /\ isQuitting = FALSE
  /\ store \in {[StoreDefaults EXCEPT !.openaiApiKey = SomeKey, !.captureInterval = i,
                                      !.minimizeToTray = m, !.showNotifications = n] :
                  i \in Intervals, m \in BOOLEAN, n \in BOOLEAN}
  /\ ~mainWindow => (platform = "darwin" /\ ~store.minimizeToTray)
  /\ apiKey = SomeKey
  /\ captureIntervalId = NoTimer
  /\ timers = NoTimers
  /\ isCapturing = TRUE
  /\ proc \in {[p \in Procs |-> IF p = 1 THEN AttemptAtAnalyze(k) ELSE IdleProc] :
                 k \in {"capture-now", "tick"}}
  /\ last = IdleProc
  /\ RendererFresh

\* analyzeImage settles in one of these ways
ApiNext == \E p \in Procs, o \in ApiOutcomes : AnalyzeSettles(p, o)

ApiSpec == ApiInit /\ [][ApiNext]_vars

\* the message of the error that the catch block of performCapture logged
ReportedError(log) ==
  log[CHOOSE i \in 1..Len(log) : log[i].ev = "log" /\ ~log[i].success].text

\* the messages of the error classes that have a fixed message
FixedMessages ==
  {"Invalid API key. Please check your OpenAI API key in Settings.",
   "Rate limit exceeded. Please wait a moment before trying again.",
   "OpenAI service is temporarily unavailable. Please try again later.",
   "Network error. Please check your internet connection.",
   "Request timed out. Please try again."}

\* ------------------------------------------------------------------- C13
\* C13: when the API answers HTTP 429 and the main window exists, the session
\* ends with one 'capture-complete' failure event whose error string is the
\* RateLimited message itself, nothing added to it.
C13_RateLimitVerbatim ==
  [][\A p \in Procs :
       (AnalyzeSettles(p, Outcome("http", 429, "", "")) /\ mainWindow) =>
         /\ last'.log[Len(last'.log)] =
              Entry("capture-complete", FALSE,
                    "Rate limit exceeded. Please wait a moment before trying again.")
         /\ Cardinality(Entries(last'.log, "capture-complete")) = 1]_vars

\* a session has ended with the RateLimited message sent to the renderer
C13_Witness ==
  /\ SessionReturned /\ mainWindow
  /\ last.log[Len(last.log)] =
       Entry("capture-complete", FALSE,
             "Rate limit exceeded. Please wait a moment before trying again.")

\* ------------------------------------------------------------------- C14
\* C14 as stated: a response of status 401 yields the InvalidApiKey message,
\* 429 the RateLimited message, every status from 500 to 599 the
\* ServiceUnavailable message, and every other status none of the fixed
\* messages (Unknown).
C14_StatusMapping ==
  [][\A p \in Procs, o \in ApiOutcomes :
       (o.type = "http" /\ AnalyzeSettles(p, o)) =>
         LET m == ReportedError(last'.log)
         IN  CASE o.status = 401 ->
                    m = "Invalid API key. Please check your OpenAI API key in Settings."
               [] o.status = 429 ->
                    m = "Rate limit exceeded. Please wait a moment before trying again."
               [] o.status \in 500..599 ->
                    m = "OpenAI service is temporarily unavailable. Please try again later."
               [] OTHER -> m \notin FixedMessages]_vars

\* ------------------------------------------------------------------- C15
\* C15 as stated: every DNS or connection failure yields the
\* NetworkUnreachable message, every client-side timeout the Timeout message,
\* and a 2xx response without content none of the fixed messages (Unknown).
C15_TransportMapping ==
  [][\A p \in Procs, o \in ApiOutcomes :
       (o.type # "http" /\ AnalyzeSettles(p, o) /\ Failed(last'.log)
          /\ ~Logged(last'.log, TRUE, "Analysis complete")) =>
         LET m == ReportedError(last'.log)
         IN  CASE o.code \in {"ENOTFOUND", "ECONNREFUSED", "EAI_AGAIN", "ECONNRESET",
                              "EHOSTUNREACH", "ENETUNREACH"} ->
                    m = "Network error. Please check your internet connection."
               [] o.code \in {"ETIMEDOUT", "ECONNABORTED"} ->
                    m = "Request timed out. Please try again."
               [] OTHER -> m \notin FixedMessages]_vars

\* ------------------------------------------------------------------- C16
\* the logs of the invocations outstanding or just returned
Logs == {proc[p].log : p \in Procs} \cup {last.log}

CaptureEvents == {"capture-started", "analyzing", "capture-complete"}

\* within one log: one capture-started at most and before every other capture
\* event, one analyzing at most and before every capture-complete, and
\* analyzing only after the capture succeeded and the key was applied
EventsInOrder(log) ==
  /\ Cardinality(Entries(log, "capture-started")) <= 1
  /\ Cardinality(Entries(log, "analyzing")) <= 1
  /\ \A i \in Entries(log, "capture-started") :
       \A j \in Entries(log, "analyzing") \cup Entries(log, "capture-complete") : i < j
  /\ \A i \in Entries(log, "analyzing") :
       /\ \A j \in Entries(log, "capture-complete") : i < j
       /\ \E j \in 1..(i - 1) : log[j] = Entry("log", TRUE, "Screenshot captured successfully")
       /\ \E j \in 1..(i - 1) : log[j].ev = "setApiKey"

\* C16: the events of a session are sent in the order capture-started,
\* analyzing (if any), capture-complete; analyzing is sent only after a
\* successful capture and with a non-empty API key applied; and while a
\* session is in flight no other invocation has sent a capture event.
C16_EventsInOrderNotInterleaved ==
  /\ \A log \in Logs : EventsInOrder(log)
  /\ (\E log \in Logs : Entries(log, "analyzing") # {}) => apiKey # NoKey
  /\ \A p \in Procs :
       InSession(p) =>
         /\ \A q \in Procs \ {p} : \A i \in 1..Len(proc[q].log) :
              proc[q].log[i].ev \notin CaptureEvents
         /\ \A i \in 1..Len(last.log) : last.log[i].ev \notin CaptureEvents

\* a session has ended having sent capture-started, analyzing and
\* capture-complete
C16_Witness ==
  /\ SessionReturned
  /\ Entries(last.log, "capture-started") # {}
  /\ Entries(last.log, "analyzing") # {}
  /\ Entries(last.log, "capture-complete") # {}

\* ------------------------------------------------------------------- C17
\* C17: no automatic retry.  A session starts only in the step of a trigger
\* (a capture-now request or a timer tick), one session per trigger at most;
\* an attempt calls captureScreen, analyzeImage and the network once each at
\* most; and an attempt that failed has returned: it makes no further call.
C17_NoAutomaticRetry ==
  /\ [](\A log \in Logs :
          /\ Cardinality(Entries(log, "captureScreen")) <= 1
          /\ Cardinality(Entries(log, "analyzeImage")) <= 1
          /\ Cardinality(Entries(log, "axios.post")) <= 1)
  /\ [](\A p \in Procs : ~Failed(proc[p].log))
  /\ [][/\ \A p \in Procs :
             SessionStarts(p) =>
               (proc[p].pc = "idle" /\ (CaptureNow \/ \E t \in TimerIds : Tick(t)))
        /\ Cardinality({p \in Procs : SessionStarts(p)}) <= 1]_vars

\* a manual session has failed, nothing is in flight and no timer is armed
C17_Witness ==
  /\ SessionReturned /\ Failed(last.log) /\ last.kind = "capture-now"
  /\ \A p \in Procs : proc[p].pc = "idle"
  /\ ~isCapturing /\ timers = NoTimers

\* ------------------------------------------------------------------- C18
\* C18 as stated: once before-quit has run, a session that resumes from
\* captureScreen or analyzeImage does nothing more: it applies no key, calls
\* no analysis, sends no 'analyzing' or 'capture-complete' and shows no
\* notification.
C18_ShutdownAbandonsPipeline ==
  [][\A p \in Procs :
       (isQuitting /\ InSession(p) /\ proc'[p] # proc[p]) =>
         LET after == IF proc'[p].pc = "idle" THEN last'.log ELSE proc'[p].log
         IN  \A ev \in {"setApiKey", "analyzing", "analyzeImage", "axios.post",
                        "capture-complete", "Notification.show"} :
               Entries(after, ev) = Entries(proc[p].log, ev)]_vars

\* ------------------------------------------------------------------- C19
\* the invocation that returned in the latest step called startAutoCapture
StartReturned ==
  \/ last.kind = "whenReady"
  \/ /\ last.kind = "update-settings" /\ store.autoCapture
     /\ \E i \in Entries(last.log, "store.set") : last.log[i].text = "captureInterval"
  \/ last.kind = "toggle-auto-capture" /\ last.hasPermission /\ last.arg

\* the invocation that returned in the latest step called stopAutoCapture
StopReturned ==
  \/ last.kind = "before-quit"
  \/ last.kind = "toggle-auto-capture" /\ last.hasPermission /\ ~last.arg

\* the timer and the persisted flag right after startAutoCapture
StartedConsistently ==
  /\ captureIntervalId # NoTimer /\ DOMAIN timers = {captureIntervalId}
  /\ store.autoCapture
  /\ Cardinality(Entries(last.log, "setInterval")) = 1

\* the timer and the persisted flag right after stopAutoCapture
StoppedConsistently ==
  /\ captureIntervalId = NoTimer /\ timers = NoTimers
  /\ ~store.autoCapture
  /\ Entries(last.log, "setInterval") = {}

\* the invocation that returned sent auto-capture-status(enabled), once, and
\* not the opposite status
StatusSent(enabled) ==
  /\ Cardinality(Events(last.log, "auto-capture-status", enabled)) = 1
  /\ Events(last.log, "auto-capture-status", ~enabled) = {}

\* C19 as stated: right after startAutoCapture a timer is armed, the
\* persisted flag is true and auto-capture-status(true) has been sent; right
\* after stopAutoCapture no timer is armed, the flag is false and
\* auto-capture-status(false) has been sent.
C19_StartStopNotifies ==
  /\ StartReturned => (StartedConsistently /\ StatusSent(TRUE))
  /\ StopReturned => (StoppedConsistently /\ StatusSent(FALSE))

\* C19, amended: the timer and the flag are as stated, so the flag equals
\* whether a timer is armed; the status is sent when the main window exists,
\* and nothing is sent when it does not.
C19_StartStopConsistent ==
  /\ StartReturned =>
       /\ StartedConsistently
       /\ IF mainWindow THEN StatusSent(TRUE)
          ELSE Entries(last.log, "auto-capture-status") = {}
  /\ StopReturned =>
       /\ StoppedConsistently
       /\ IF mainWindow THEN StatusSent(FALSE)
          ELSE Entries(last.log, "auto-capture-status") = {}
  /\ (StartReturned \/ StopReturned) => (store.autoCapture <=> timers # NoTimers)

\* before-quit has stopped an armed timer after the main window was released:
\* the flag is false, no timer is armed, no status was sent
C19_Witness ==
  /\ last.kind = "before-quit" /\ ~mainWindow
  /\ Entries(last.log, "clearInterval") # {}
  /\ Entries(last.log, "auto-capture-status") = {}
  /\ ~store.autoCapture /\ timers = NoTimers

\* ------------------------------------------------------------------- C20
\* the ways captureScreen fails: it throws, or it returns no image
CaptureFailures == CaptureOutcomes \ {"image"}

\* the message of the failure: that of the error captureScreen threw, or the
\* one performCapture throws when there is no image
CaptureFailureMessage(o) ==
  IF captureScreen(o).threw THEN captureScreen(o).message ELSE MsgCaptureFailed

\* C20: when captureScreen throws or returns no image, the session ends in
\* that step with the failure's message logged and, if the main window
\* exists, sent in one capture-complete{success:false}; the key is not
\* applied, analyzeImage is not called, no request is made and no
\* 'analyzing' is sent.
C20_CaptureFailureEndsSession ==
  [][\A p \in Procs, o \in CaptureFailures :
       CaptureScreenSettles(p, o) =>
         /\ proc'[p] = IdleProc /\ ~isCapturing'
         /\ last'.kind = proc[p].kind /\ last'.result # "rejected"
         /\ Logged(last'.log, FALSE, CaptureFailureMessage(o))
         /\ Cardinality(Entries(last'.log, "capture-complete")) =
              (IF mainWindow THEN 1 ELSE 0)
         /\ \A i \in Entries(last'.log, "capture-complete") :
              last'.log[i] = Entry("capture-complete", FALSE, CaptureFailureMessage(o))
         /\ apiKey' = apiKey
         /\ \A ev \in {"setApiKey", "analyzing", "analyzeImage", "axios.post",
                       "Notification.show"} :
              Entries(last'.log, ev) = {}]_vars

\* a session has just failed for want of an image although a key is stored:
\* the failure is reported, the stored key was not applied
C20_Witness ==
  /\ SessionReturned
  /\ Logged(last.log, FALSE, MsgCaptureFailed)
  /\ Events(last.log, "capture-complete", FALSE) # {}
  /\ store.openaiApiKey # NoKey /\ apiKey # store.openaiApiKey
  /\ Entries(last.log, "analyzing") = {}

\* ------------------------------------------------------------------- C21
\* C21: every armed timer has a positive whole number of milliseconds as its
\* interval, within the 5 to 60 seconds of the slider, and so has the stored
\* interval a start or restart would arm next.
C21_IntervalPositive ==
  /\ \A t \in DOMAIN timers :
       /\ timers[t].interval \in Nat /\ timers[t].interval > 0
       /\ timers[t].interval \in (SliderMin * 1000)..(SliderMax * 1000)
  /\ store.captureInterval \in Nat /\ store.captureInterval > 0
  /\ store.captureInterval \in (SliderMin * 1000)..(SliderMax * 1000)

\* a settings update moved the interval away from the default while
\* auto-capture was on, and the restart armed a timer with the new interval
C21_Witness ==
  /\ last.kind = "update-settings"
  /\ store.captureInterval # DefaultInterval
  /\ captureIntervalId \in DOMAIN timers
  /\ timers[captureIntervalId].interval = store.captureInterval

\* ------------------------------------------------------------------- C22
\* the settings handler alone: the app is running with its window open, any
\* settings stored, the timer armed or not (always with the stored interval;
\* not armed with the flag true is the state a denied start-up leaves), and the
\* renderer sends update-settings requests
SettingsInit ==
  /\ platform \in Platforms
  /\ mediaAccess = (IF platform = "darwin" THEN "granted" ELSE "unavailable")
  /\ appState = "running"
  /\ dispatch = "none"
  /\ mainWindow = TRUE
  /\ isQuitting = FALSE
  /\ store \in [captureInterval : Intervals, autoCapture : BOOLEAN,
                openaiApiKey : ApiKeys, minimizeToTray : BOOLEAN,
                showNotifications : BOOLEAN]
  /\ apiKey = NoKey
  /\ captureIntervalId \in {NoTimer, Min(TimerIds)}
  /\ captureIntervalId # NoTimer => store.autoCapture
  /\ timers = TimersAfterStart(NoTimers, NoTimer, store.captureInterval, Min(TimerIds))
     \/ timers = NoTimers
  /\ timers = NoTimers <=> captureIntervalId = NoTimer
  /\ isCapturing = FALSE
  /\ proc = [p \in Procs |-> IdleProc]
  /\ last = IdleProc
  /\ RendererFresh

SettingsNext == \E s \in SettingsUpdates : UpdateSettings(s)

SettingsSpec == SettingsInit /\ [][SettingsNext]_vars

\* C22: update-settings stores every field present in the update object and
\* leaves every other stored setting, the auto-capture flag included, as it
\* was; an update without captureInterval leaves the timers and the handle
\* untouched and calls neither clearInterval nor setInterval.
C22_PartialUpdate ==
  [][\A s \in SettingsUpdates :
       UpdateSettings(s) =>
         /\ \A k \in DOMAIN store :
              store'[k] = IF k \in DOMAIN s THEN s[k] ELSE store[k]
         /\ "captureInterval" \notin DOMAIN s =>
              /\ UNCHANGED <<timers, captureIntervalId>>
              /\ \A ev \in {"clearInterval", "setInterval", "auto-capture-status"} :
                   Entries(last'.log, ev) = {}]_vars

\* update-settings has just stored a new captureInterval alone while
\* auto-capture was on: the key and the other settings stored before, which
\* are not the defaults, are still there
C22_Witness ==
  /\ last.kind = "update-settings"
  /\ DOMAIN last.settings = {"captureInterval"}
  /\ store.captureInterval = last.settings.captureInterval
  /\ store.captureInterval # DefaultInterval
  /\ store.openaiApiKey = SomeKey /\ ~store.minimizeToTray /\ ~store.showNotifications
  /\ store.autoCapture /\ captureIntervalId \in DOMAIN timers

\* ------------------------------------------------------------------- C23
\* the auto-capture timer state: the handle kept, the interval of every armed
\* timer, and the persisted flag
TimerState ==
  <<captureIntervalId, [t \in DOMAIN timers |-> timers[t].interval], store.autoCapture>>

\* a step of a capture request or session: a capture-now invocation or a
\* timer callback starts, resumes or returns
SessionStep ==
  \/ last'.kind \in {"capture-now", "tick"}
  \/ \E p \in Procs : /\ proc'[p] # proc[p]
                       /\ {proc[p].kind, proc'[p].kind} \cap {"capture-now", "tick"} # {}

\* C23: the timer state changes only in a step in which startAutoCapture or
\* stopAutoCapture ran (a toggle with permission, an update-settings restart,
\* the start-up restore, before-quit); no step of a capture request or
\* session, whatever its outcome, changes it.
C23_OnlyStartStopChangeTimer ==
  /\ [][TimerState' # TimerState =>
          \/ last'.kind = "toggle-auto-capture" /\ last'.hasPermission
          \/ last'.kind = "update-settings" /\ Entries(last'.log, "setInterval") # {}
          \/ last'.kind \in {"whenReady", "before-quit"}]_vars
  /\ [][SessionStep => TimerState' = TimerState]_vars

\* a session started by a tick has just failed while auto-capture is on: the
\* timer is still armed and the flag still true
C23_Witness ==
  /\ last.kind = "tick" /\ Failed(last.log)
  /\ store.autoCapture
  /\ captureIntervalId \in DOMAIN timers

\* ------------------------------------------------------------------- C24
\* C24: on a platform other than macOS check-permission returns true, every
\* capture-now and toggle-auto-capture invocation has hasPermission true and
\* returns what it returns with permission, and no message box is ever open:
\* no invocation waits in the permission dialog and start-up never stops at
\* one.
C24_NoPermissionConceptAlwaysGranted ==
  platform # "darwin" =>
    /\ last.kind = "check-permission" => last.result = "true"
    /\ last.kind \in {"capture-now", "toggle-auto-capture"} => last.hasPermission
    /\ last.kind = "capture-now" => last.result = "true"
    /\ \A p \in Procs :
         /\ proc[p].pc # "permissionDialog"
         /\ proc[p].kind \in {"capture-now", "toggle-auto-capture"} => proc[p].hasPermission
    /\ appState # "startupDialog"
    /\ ~DialogOpen

\* off macOS, check-permission has just answered true while a session that a
\* capture-now request started without any dialog is in flight
C24_Witness ==
  /\ platform # "darwin"
  /\ last.kind = "check-permission" /\ last.result = "true"
  /\ \E p \in Procs : proc[p].kind = "capture-now" /\ InSession(p)

\* ------------------------------------------------------------------- C25
\* C25 as stated: whenever a timer is armed, the handler that armed it had
\* made a permission check that returned granted before it called
\* startAutoCapture.
C25_ArmedAfterGrantedCheck ==
  [][Entries(last'.log, "setInterval") # {} => last'.hasPermission]_vars

\* ------------------------------------------------------------------- C26
\* C26 as stated: once start-up has completed, the persisted auto-capture
\* flag is true exactly when a timer is armed.
C26_FlagIffTimerArmed ==
  appState \in {"running", "exited"} =>
    (store.autoCapture <=> (captureIntervalId # NoTimer /\ timers # NoTimers))

\* ------------------------------------------------------------------- C27
\* C27: when a toggle-auto-capture invocation returns without permission it
\* returns false, having called and sent nothing, and the step changes
\* neither the timers, the handle nor the store, whatever was requested;
\* with permission it returns the requested value, and after a request for
\* off no timer is armed (after a request for on, one is).
C27_ToggleHonoursPermission ==
  [][last'.kind = "toggle-auto-capture" =>
       IF ~last'.hasPermission
         THEN /\ last'.result = "false"
              /\ last'.log = <<>>
              /\ UNCHANGED <<timers, captureIntervalId, store>>
         ELSE /\ last'.result = (IF last'.arg THEN "true" ELSE "false")
              /\ ~last'.arg => timers' = NoTimers /\ captureIntervalId' = NoTimer
              /\ last'.arg => DOMAIN timers' = {captureIntervalId'}]_vars

\* a request to turn auto-capture off has just returned false for want of
\* permission: the timer armed earlier is still armed and the flag still true
C27_Witness ==
  /\ last.kind = "toggle-auto-capture" /\ ~last.hasPermission /\ ~last.arg
  /\ last.result = "false"
  /\ store.autoCapture /\ captureIntervalId \in DOMAIN timers

\* ------------------------------------------------------------------- C28
\* handleAutoCaptureToggle of the renderer: state.isAutoCaptureEnabled and the
\* checkbox take the value the toggle-auto-capture invocation rec returned
isAutoCaptureEnabled(rec) == rec.result = "true"

\* C28 as stated: when a toggle-auto-capture invocation has returned, the
\* renderer shows auto-capture as enabled exactly when a timer is armed.
C28_RendererAgreesWithTimer ==
  last.kind = "toggle-auto-capture" =>
    (isAutoCaptureEnabled(last) <=> (captureIntervalId # NoTimer /\ timers # NoTimers))

\* ------------------------------------------------------------------- C29
\* C29 as stated: the message a tray item sends while the window exists is
\* received by a listener of the renderer (which would then call capture-now
\* or toggle-auto-capture).
C29_TrayMessageReceived ==
  last.kind = "tray-click" =>
    \A i \in 1..Len(last.log) : last.log[i].ev \in TrayChannels => last.log[i].success

\* ------------------------------------------------------------------- C30
\* the renderer's loading overlay after the events of log: shown by
\* 'capture-started', hidden by 'capture-complete'
LoadingVisible(log) ==
  /\ Entries(log, "capture-started") # {}
  /\ \A h \in Entries(log, "capture-complete") :
       \E shown \in Entries(log, "capture-started") : shown > h

\* a session is in flight whose 'capture-started' went to the renderer
StartedInFlight == \E p \in Procs : InSession(p) /\ LoadingVisible(proc[p].log)

\* the session that has just ended left the overlay of the renderer hidden
EndedHidden ==
  SessionReturned /\ Entries(last.log, "capture-complete") # {}
  /\ ~LoadingVisible(last.log)

\* C30 as stated: a session that sent 'capture-started' to the renderer has
\* sent 'capture-complete' after it by the time it ends.
C30_StartedThenComplete ==
  SessionReturned => ~LoadingVisible(last.log)

\* C30, amended: a session whose 'capture-started' went to the renderer
\* eventually ends having sent 'capture-complete' after it, unless the main
\* window is released or the process exits first; and a session that ends
\* while the main window exists has sent it.
C30_StartedThenCompleteWhileWindow ==
  /\ StartedInFlight ~> (EndedHidden \/ ~mainWindow \/ appState = "exited")
  /\ []((SessionReturned /\ mainWindow) => ~LoadingVisible(last.log))

\* a capture-now session that showed the overlay has just ended, in failure,
\* with the window still there: the overlay is hidden again
C30_Witness ==
  /\ last.kind = "capture-now" /\ mainWindow
  /\ Entries(last.log, "capture-started") # {}
  /\ Events(last.log, "capture-complete", FALSE) # {}
  /\ ~LoadingVisible(last.log)

\* ------------------------------------------------------------ the renderer
\* The renderer process alone (app.js).  The main process is its environment:
\* it sends 'capture-complete' events and settles captureNow() calls; the
\* main-process variables stay as they are while the window is open.
RendererInit ==
  /\ platform \in Platforms
  /\ mediaAccess = (IF platform = "darwin" THEN "granted" ELSE "unavailable")
  /\ appState = "running"
  /\ dispatch = "none"
  /\ mainWindow = TRUE
  /\ isQuitting = FALSE
  /\ store = StoreDefaults
  /\ apiKey = NoKey
  /\ captureIntervalId = NoTimer
  /\ timers = NoTimers
  /\ isCapturing = FALSE
  /\ proc = [p \in Procs |-> IdleProc]
  /\ last = IdleProc
  /\ RendererFresh

\* the analyses a successful session sends: what analyzeImage returns
Analyses == {analyzeImage(o).value : o \in {x \in AnalyzeOutcomes : ~analyzeImage(x).threw}}

\* the payloads of 'capture-complete': success with the analysis and the time
\* of completion (counted in completed sessions), or failure with the message
CaptureCompleteEvents ==
  {[success |-> TRUE, analysis |-> a, timestamp |-> t, error |-> ""] :
     a \in Analyses, t \in 1..MaxEvents}
  \cup {[success |-> FALSE, analysis |-> "", timestamp |-> 0, error |-> e] :
          e \in {MsgCaptureFailed, MsgNoApiKey, MsgNetwork}}

\* sessions run one at a time and each stamps its result when it completes:
\* the next success carries the next time
NextTimestamp(history) == IF history = <<>> THEN 1 ELSE Head(history).timestamp + 1

\* JSON.stringify and JSON.parse of the history array
JSONstringify(history) == [present |-> TRUE, text |-> history]
JSONparse(item) == item.text

\* variant: addToHistory without the pop
addToHistoryUnbounded(history, analysis, timestamp) ==
  <<[analysis |-> analysis, timestamp |-> timestamp]>> \o history

\* addToHistory: unshift the entry, pop the last one beyond the limit
addToHistory(history, analysis, timestamp) ==
  LET unshifted == <<[analysis |-> analysis, timestamp |-> timestamp]>> \o history
  IN  IF Len(unshifted) > HistoryLimit
        THEN SubSeq(unshifted, 1, Len(unshifted) - 1)
        ELSE unshifted

\* loadHistory: the saved item, if there is one
loadHistory(item) == IF item.present THEN JSONparse(item) ELSE <<>>

\* window.electronAPI.onCaptureComplete listener, as far as the history goes
OnCaptureComplete(data) ==
  /\ mainWindow
  /\ data.success => data.timestamp = NextTimestamp(analysisHistory)
  /\ IF data.success
       THEN /\ analysisHistory' = addToHistory(analysisHistory, data.analysis,
                                               data.timestamp)
            /\ localStorage' = JSONstringify(analysisHistory')
       ELSE UNCHANGED <<analysisHistory, localStorage>>
  /\ UNCHANGED <<mainVars, captureBtnDisabled, captureNowPending>>

\* handleCaptureNow up to its await: the button is disabled and captureNow()
\* is called
handleCaptureNow ==
  /\ captureNowPending < MaxRequests
  /\ captureBtnDisabled' = TRUE
  /\ captureNowPending' = captureNowPending + 1
  /\ UNCHANGED <<mainVars, analysisHistory, localStorage>>

\* a click on the Capture Now button; a disabled button emits no click
CaptureBtnClicked == mainWindow /\ ~captureBtnDisabled /\ handleCaptureNow

\* the keydown listener: Ctrl/Cmd+Shift+C calls handleCaptureNow
ShortcutPressed == mainWindow /\ handleCaptureNow

\* what a captureNow() call settles with: the handler's return value, or a
\* rejection
CaptureNowOutcomes == {"true", "false", "rejected"}

\* one captureNow() call settles; handleCaptureNow runs on through its catch
\* block (on rejection: hideLoading and a toast) and its finally block
CaptureNowSettles(outcome) ==
  /\ mainWindow
  /\ captureNowPending > 0
  /\ captureNowPending' = captureNowPending - 1
  /\ captureBtnDisabled' = FALSE
  /\ UNCHANGED <<mainVars, analysisHistory, localStorage>>

\* the page is loaded again (a new window): init() runs loadHistory; the
\* button is enabled as in the page and the calls of the old page are gone
RendererLoaded ==
  /\ mainWindow
  /\ analysisHistory' = loadHistory(localStorage)
  /\ captureBtnDisabled' = FALSE
  /\ captureNowPending' = 0
  /\ UNCHANGED <<mainVars, localStorage>>

RendererNext ==
  \/ \E data \in CaptureCompleteEvents : OnCaptureComplete(data)
  \/ CaptureBtnClicked
  \/ ShortcutPressed
  \/ \E outcome \in CaptureNowOutcomes : CaptureNowSettles(outcome)
  \/ RendererLoaded

RendererSpec == RendererInit /\ [][RendererNext]_vars

\* ------------------------------------------------------------------- C31
NewestFirst(history) ==
  \A i, j \in DOMAIN history : i < j => history[i].timestamp > history[j].timestamp

\* C31: the renderer's history never holds more than 10 entries and is ordered
\* newest first; a successful capture-complete puts its entry first and keeps
\* the entries before it in order, dropping exactly the oldest when 10 were
\* present; a failed capture-complete leaves the history as it was.
C31_HistoryBounded ==
  /\ [](Len(analysisHistory) <= HistoryLimit /\ NewestFirst(analysisHistory))
  /\ [][\A data \in CaptureCompleteEvents :
          OnCaptureComplete(data) =>
            IF data.success
              THEN /\ Head(analysisHistory') =
                        [analysis |-> data.analysis, timestamp |-> data.timestamp]
                   /\ Tail(analysisHistory') =
                        IF Len(analysisHistory) = HistoryLimit
                          THEN SubSeq(analysisHistory, 1, HistoryLimit - 1)
                          ELSE analysisHistory
              ELSE analysisHistory' = analysisHistory]_vars

\* the history is full and its oldest entries have been dropped: it holds the
\* last 10 of more than 10 successful captures, the newest first
C31_Witness ==
  /\ Len(analysisHistory) = HistoryLimit
  /\ analysisHistory[1].timestamp > HistoryLimit + 1
  /\ analysisHistory[HistoryLimit].timestamp = analysisHistory[1].timestamp - HistoryLimit + 1
  /\ loadHistory(localStorage) = analysisHistory

\* ------------------------------------------------------------------- C32
\* C32: the Capture Now button is disabled exactly while a captureNow request
\* of the renderer is outstanding: disabled whenever one is, enabled whenever
\* none is.
C32_ButtonDisabledWhilePending ==
  captureBtnDisabled <=> captureNowPending > 0

====
